---- MODULE Spec2Model ----
(***************************************************************************)
(* The rust-peer node of universal-connectivity (src/rust-peer/src/main.rs)*)
(* as a state machine: the identity and certificate files, the startup     *)
(* sequence of main, and the event loop over select(swarm.next(), tick).   *)
(***************************************************************************)
EXTENDS Naturals, Sequences, FiniteSets

VARIABLES
    keyFile,            \* ./local_key on disk: [exists, bytes]
    certFile,           \* ./cert.pem on disk: [exists, pem]
    nextKey,            \* the next secret the key generator hands out
    opt,                \* the parsed command line (Opt)
    pc,                 \* the position of main
    local_key,          \* main's local_key, until create_swarm consumes it
    local_peer_id,      \* swarm.local_peer_id()
    behaviour_peer_id,  \* the peer id the behaviours were built with
    external_addresses, \* swarm.external_addresses()
    subscriptions,      \* gossipsub: topic hashes this node is subscribed to
    explicit_peers,     \* gossipsub: explicit peers
    pending,            \* number of events the swarm has ready
    tick,               \* the futures_timer::Delay: [interval, fired]
    event,              \* the event the last loop iteration handled
    calls,              \* library calls issued since the last suspension point
    ids                 \* result of read_or_create_identity in every run so far

vars == <<keyFile, certFile, nextKey, opt, pc, local_key, local_peer_id,
          behaviour_peer_id, external_addresses, subscriptions, explicit_peers,
          pending, tick, event, calls, ids>>

----------------------------------------------------------------------------
(* Bounds of the model *)

MaxRuns == 2        \* process starts (restarts included)
MaxPending == 1     \* swarm events ready at the same time
NumPeers == 1       \* remote peers
NumObserved == 1    \* distinct observed addresses remote peers report
NumOtherTopics == 1 \* topic names besides the two well-known ones
NumConnect == 2     \* bootstrap addresses given with --connect

----------------------------------------------------------------------------
(* Program constants *)

TICK_INTERVAL == 15
PORT_TCP == 1234
PORT_WEBRTC == 9090
PORT_QUIC == 9091
GOSSIPSUB_PEER_DISCOVERY == "dcontact._peer-discovery._p2p._pubsub"
DCONTACT_TOPIC == "/dContact/3/message/proto"
UNSPECIFIED_IP == 0     \* the default --listen-address 0.0.0.0
KeyType_Ed25519 == 1    \* the key type tag of the protobuf encoding

Peers == 1..NumPeers

----------------------------------------------------------------------------
(* identity::Keypair, its protobuf encoding and PeerId *)

PublicOf(secret) == secret + 100

Keypair(secret) == [secret |-> secret, public |-> PublicOf(secret)]

NoKey == [secret |-> 0, public |-> 0]

\* PeerId::from(public key): the identity multihash of the public key
PeerIdOf(public) == 2 * public

NoPeerId == 0

\* Keypair::to_protobuf_encoding: key type, then secret and public halves
to_protobuf_encoding(kp) == <<KeyType_Ed25519, kp.secret, kp.public>>

\* Keypair::from_protobuf_encoding: fails on a truncated message, on another
\* key type and on a public half that does not belong to the secret half
from_protobuf_encoding(bytes) ==
    IF /\ Len(bytes) = 3
       /\ bytes[1] = KeyType_Ed25519
       /\ bytes[3] = PublicOf(bytes[2])
    THEN [ok |-> TRUE, key |-> [secret |-> bytes[2], public |-> bytes[3]]]
    ELSE [ok |-> FALSE, key |-> NoKey]

NoFile == [bytes |-> <<>>, exists |-> FALSE]
File(bytes) == [bytes |-> bytes, exists |-> TRUE]

\* what a failed fs::write can leave behind: nothing, or a truncated file
Prefixes(bytes) == {SubSeq(bytes, 1, n) : n \in 0..(Len(bytes) - 1)}

----------------------------------------------------------------------------
(* Multiaddr: a sequence of protocol components *)

Ip(n) == [proto |-> "ip4", val |-> n]
Tcp(port) == [proto |-> "tcp", val |-> port]
Udp(port) == [proto |-> "udp", val |-> port]
WebRTCDirect == [proto |-> "webrtc-direct", val |-> 0]
QuicV1 == [proto |-> "quic-v1", val |-> 0]
P2p(peer_id) == [proto |-> "p2p", val |-> peer_id]

None == [val |-> 0, some |-> FALSE]
Some(v) == [val |-> v, some |-> TRUE]

\* Multiaddr::with: append one component
With(addr, protocol) == Append(addr, protocol)

\* Multiaddr::replace(at, by) with a `by` that always returns Some(protocol):
\* None when the address has no component at index `at` (counted from 0)
Replace(addr, at, protocol) ==
    IF at >= Len(addr)
    THEN [some |-> FALSE, addr |-> <<>>]
    ELSE [some |-> TRUE,
          addr |-> [i \in 1..Len(addr) |-> IF i = at + 1 THEN protocol ELSE addr[i]]]

\* the three listen addresses main builds from opt.listen_address
address_tcp(o) == With(<<Ip(o.listen_address)>>, Tcp(PORT_TCP))
address_webrtc(o) == With(With(<<Ip(o.listen_address)>>, Udp(PORT_WEBRTC)), WebRTCDirect)
address_quic(o) == With(With(<<Ip(o.listen_address)>>, Udp(PORT_QUIC)), QuicV1)

\* the bootstrap addresses of --connect
BootstrapAddr(i) == <<[proto |-> "dns4", val |-> i], Tcp(1235)>>

\* the external IP an operator may configure, and the address component of the
\* local interface the listeners report their addresses on
ExternalIps == {50}
LocalInterface == Ip(10)

Opts ==
    {[listen_address |-> UNSPECIFIED_IP,
      external_address |-> ext,
      gossipsub_peer_discovery |-> GOSSIPSUB_PEER_DISCOVERY,
      dcontact_topic |-> DCONTACT_TOPIC,
      connect |-> [i \in 1..NumConnect |-> BootstrapAddr(i)]]
        : ext \in {None} \cup {Some(ip) : ip \in ExternalIps}}

----------------------------------------------------------------------------
(* Library calls main issues, as it issues them *)

NoAddr == <<>>

Call(op, topic, peer, addr, result) ==
    [addr |-> addr, op |-> op, topic |-> topic, peer |-> peer, result |-> result]

Result(ok) == IF ok THEN "Ok" ELSE "Err"

\* gossipsub::IdentTopic::new(name).hash(): the identity hasher keeps the name
IdentTopicHash(name) == name

----------------------------------------------------------------------------
(* The identity and certificate stores *)

\* fs::write(path, bytes): the whole file on success; on failure nothing, or
\* a truncated file
FsWrite(bytes) ==
    {[ok |-> TRUE, file |-> File(bytes)], [ok |-> FALSE, file |-> NoFile]}
        \cup {[ok |-> FALSE, file |-> File(p)] : p \in Prefixes(bytes)}

read_or_create_identity_NotPersisted(file, secret, written) ==
    IF file.exists
    THEN LET decoded == from_protobuf_encoding(file.bytes)
         IN  [ok |-> decoded.ok, key |-> decoded.key, file |-> file,
              how |-> "loaded", drawn |-> 0]
    ELSE [ok |-> TRUE, key |-> Keypair(secret), file |-> file,
          how |-> "generated", drawn |-> 1]

read_or_create_identity_Regenerating(file, secret, written) ==
    [ok |-> written.ok,
     key |-> IF written.ok THEN Keypair(secret) ELSE NoKey,
     file |-> written.file,
     how |-> IF file.exists THEN "loaded" ELSE "generated", drawn |-> 1]

\* a file that does not decode is treated as an absent one
read_or_create_identity_Recovering(file, secret, written) ==
    IF file.exists /\ from_protobuf_encoding(file.bytes).ok
    THEN [ok |-> TRUE, key |-> from_protobuf_encoding(file.bytes).key,
          file |-> file, how |-> "loaded", drawn |-> 0]
    ELSE [ok |-> written.ok,
          key |-> IF written.ok THEN Keypair(secret) ELSE NoKey,
          file |-> written.file,
          how |-> "generated", drawn |-> 1]

\* read_or_create_identity(path), given the secret a generation would draw
\* and the outcome `written` a write would have
read_or_create_identity(file, secret, written) ==
    IF file.exists
    THEN LET decoded == from_protobuf_encoding(file.bytes)
         IN  [ok |-> decoded.ok, key |-> decoded.key, file |-> file,
              how |-> "loaded", drawn |-> 0]
    ELSE LET identity == Keypair(secret)
         IN  [ok |-> written.ok,
              key |-> IF written.ok THEN identity ELSE NoKey,
              file |-> written.file,
              how |-> "generated", drawn |-> 1]

IdentityWrites(secret) == FsWrite(to_protobuf_encoding(Keypair(secret)))

\* what one call returned, as the run history keeps it
IdResult(r) ==
    [how |-> IF r.ok THEN r.how ELSE "error",
     id |-> IF r.ok THEN PeerIdOf(r.key.public) ELSE NoPeerId]

\* Certificate: serialize_pem / from_pem
GeneratedCert == [fingerprint |-> 1]
serialize_pem(cert) == <<cert.fingerprint>>
from_pem(pem) == IF Len(pem) = 1 THEN [ok |-> TRUE] ELSE [ok |-> FALSE]

\* read_or_create_certificate(path)
read_or_create_certificate(file, written) ==
    IF file.exists
    THEN [ok |-> from_pem(file.bytes).ok, file |-> file]
    ELSE [ok |-> written.ok, file |-> written.file]

----------------------------------------------------------------------------
(* Initial state: the process starts on whatever the disk holds *)

PreexistingKey == Keypair(0)

NoTick == [interval |-> 0, fired |-> FALSE]
NoEvent == [addr |-> NoAddr, topic |-> "", peer |-> 0, kind |-> "none"]

Init ==
    /\ keyFile \in {NoFile, File(to_protobuf_encoding(PreexistingKey)), File(<<>>)}
    /\ certFile \in {NoFile, File(serialize_pem(GeneratedCert)), File(<<>>)}
    /\ nextKey = 1
    /\ opt \in Opts
    /\ pc = "read_identity"
    /\ local_key = NoKey
    /\ local_peer_id = NoPeerId
    /\ behaviour_peer_id = NoPeerId
    /\ external_addresses = {}
    /\ subscriptions = {}
    /\ explicit_peers = {}
    /\ pending = 0
    /\ tick = NoTick
    /\ event = NoEvent
    /\ calls = <<>>
    /\ ids = <<>>

LoopPcs == {"select", "poll_tick", "parked"}

----------------------------------------------------------------------------
(* main: the startup sequence *)

OrAbort_Ignored(ok, next) == next

\* `?` on a Result, .expect on a Result: go on, or leave main
OrAbort(ok, next) == IF ok THEN next ELSE "aborted"

\* let local_key = read_or_create_identity(LOCAL_KEY_PATH).await.context(..)?
ReadIdentity ==
    /\ pc = "read_identity"
    /\ \E written \in IdentityWrites(nextKey) :
         LET r == read_or_create_identity(keyFile, nextKey, written)
         IN  /\ keyFile' = r.file
             /\ nextKey' = nextKey + r.drawn
             /\ local_key' = r.key
             /\ ids' = Append(ids, IdResult(r))
             /\ pc' = OrAbort(r.ok, "read_certificate")
    /\ UNCHANGED <<certFile, opt, local_peer_id, behaviour_peer_id,
                   external_addresses, subscriptions, explicit_peers, pending,
                   tick, event, calls>>

\* let webrtc_cert = read_or_create_certificate(LOCAL_CERT_PATH).await.context(..)?
ReadCertificate ==
    /\ pc = "read_certificate"
    /\ \E written \in FsWrite(serialize_pem(GeneratedCert)) :
         LET r == read_or_create_certificate(certFile, written)
         IN  /\ certFile' = r.file
             /\ pc' = OrAbort(r.ok, "create_swarm")
    /\ UNCHANGED <<keyFile, nextKey, opt, local_key, local_peer_id,
                   behaviour_peer_id, external_addresses, subscriptions,
                   explicit_peers, pending, tick, event, calls, ids>>

\* the keypair the SwarmBuilder builds the transports and the swarm with:
\* SwarmBuilder::with_new_identity() generates one, whatever local_key is
SwarmIdentity(key, secret) == Keypair(secret)

\* the topics create_swarm subscribes the gossipsub behaviour to
StartupTopics(o) == {IdentTopicHash(o.gossipsub_peer_discovery)}

\* let mut swarm = create_swarm(local_key, webrtc_cert, &opt)?
CreateSwarm ==
    /\ pc = "create_swarm"
    /\ behaviour_peer_id' = PeerIdOf(local_key.public)
    /\ subscriptions' = StartupTopics(opt)
    /\ local_peer_id' = PeerIdOf(SwarmIdentity(local_key, nextKey).public)
    /\ nextKey' = nextKey + 1
    /\ local_key' = NoKey
    /\ pc' = "listen_tcp"
    /\ UNCHANGED <<keyFile, certFile, opt, external_addresses, explicit_peers,
                   pending, tick, event, calls, ids>>

ListenSteps ==
    <<[addr |-> address_tcp(opt), at |-> "listen_tcp", next |-> "listen_webrtc"],
      [addr |-> address_webrtc(opt), at |-> "listen_webrtc", next |-> "listen_quic"],
      [addr |-> address_quic(opt), at |-> "listen_quic", next |-> "dial"]>>

\* swarm.listen_on(address).expect("listen on ..")
ListenOn ==
    \E i \in 1..Len(ListenSteps), bound \in BOOLEAN :
        /\ pc = ListenSteps[i].at
        /\ calls' = Append(calls, Call("listen_on", "", 0, ListenSteps[i].addr,
                                       Result(bound)))
        /\ pc' = OrAbort(bound, ListenSteps[i].next)
        /\ UNCHANGED <<keyFile, certFile, nextKey, opt, local_key, local_peer_id,
                       behaviour_peer_id, external_addresses, subscriptions,
                       explicit_peers, pending, tick, event, ids>>

Dialed == Len(SelectSeq(calls, LAMBDA c : c.op = "dial"))

\* the dial result handled with the ? operator: an error leaves main
AfterDial_Try(result) == OrAbort(result = "Ok", "dial")

\* if let Err(e) = swarm.dial(addr.clone()) { debug!(..) }: an error is logged
\* and the for loop goes on with the next address
AfterDial(result) == "dial"

\* for addr in opt.connect { if let Err(e) = swarm.dial(addr.clone()) { debug!(..) } }
Dial ==
    /\ pc = "dial"
    /\ Dialed < Len(opt.connect)
    /\ \E dialed \in BOOLEAN :
         /\ calls' = Append(calls, Call("dial", "", 0, opt.connect[Dialed + 1],
                                        Result(dialed)))
         /\ pc' = AfterDial(Result(dialed))
    /\ UNCHANGED <<keyFile, certFile, nextKey, opt, local_key, local_peer_id,
                   behaviour_peer_id, external_addresses, subscriptions,
                   explicit_peers, pending, tick, event, ids>>

\* futures_timer::Delay::new(TICK_INTERVAL)
NewDelay == [interval |-> TICK_INTERVAL, fired |-> FALSE]

\* let mut tick = futures_timer::Delay::new(TICK_INTERVAL); loop { .. }
EnterLoop ==
    /\ pc = "dial"
    /\ Dialed = Len(opt.connect)
    /\ tick' = NewDelay
    /\ pc' = "select"
    /\ UNCHANGED <<keyFile, certFile, nextKey, opt, local_key, local_peer_id,
                   behaviour_peer_id, external_addresses, subscriptions,
                   explicit_peers, pending, event, calls, ids>>

\* the process ends (killed, or after main left) and is started again on the
\* same disk with the same command line
Restart ==
    /\ pc # "read_identity"
    /\ Len(ids) < MaxRuns
    /\ pc' = "read_identity"
    /\ local_key' = NoKey
    /\ local_peer_id' = NoPeerId
    /\ behaviour_peer_id' = NoPeerId
    /\ external_addresses' = {}
    /\ subscriptions' = {}
    /\ explicit_peers' = {}
    /\ pending' = 0
    /\ tick' = NoTick
    /\ event' = NoEvent
    /\ calls' = <<>>
    /\ UNCHANGED <<keyFile, certFile, nextKey, opt, ids>>

Startup == ReadIdentity \/ ReadCertificate \/ CreateSwarm \/ ListenOn \/ Dial \/ EnterLoop

----------------------------------------------------------------------------
(* The events swarm.next() yields *)

\* topic names a message can carry: the two well-known ones and others
OtherTopicNames == <<"topic-a", "topic-b", "topic-c">>
Topics ==
    {GOSSIPSUB_PEER_DISCOVERY, DCONTACT_TOPIC}
        \cup {OtherTopicNames[i] : i \in 1..NumOtherTopics}

Event(kind, peer, topic, addr) ==
    [addr |-> addr, topic |-> topic, peer |-> peer, kind |-> kind]

\* the addresses the three listeners report once bound to the local interface
ListenAddrs ==
    {With(<<LocalInterface>>, Tcp(PORT_TCP)),
     With(With(With(<<LocalInterface>>, Udp(PORT_WEBRTC)), WebRTCDirect),
          [proto |-> "certhash", val |-> GeneratedCert.fingerprint]),
     With(With(<<LocalInterface>>, Udp(PORT_QUIC)), QuicV1)}

\* the addresses remote peers report having seen this node at
ObservedAddrs == {<<Ip(20 + i), Tcp(PORT_TCP)>> : i \in 1..NumObserved}

NewListenAddrEvents == {Event("NewListenAddr", 0, "", a) : a \in ListenAddrs}
MessageEvents == {Event("Gossipsub::Message", 0, t, NoAddr) : t \in Topics}
SubscribedEvents ==
    {Event("Gossipsub::Subscribed", p, t, NoAddr) : p \in Peers, t \in Topics}
IdentifyEvents ==
    {Event("Identify::Received", 0, "", a) : a \in ObservedAddrs}
        \cup {Event("Identify::Error(Timeout)", p, "", NoAddr) : p \in Peers}
        \cup {Event("Identify::Error(Other)", 0, "", NoAddr),
              Event("Identify::Sent", 0, "", NoAddr)}
OtherEvents ==
    {Event("Gossipsub::Unsubscribed", p, "", NoAddr) : p \in Peers}
        \cup {Event("Ping", 0, "", NoAddr)}

----------------------------------------------------------------------------
(* The library state the handlers change *)

\* the confirmed address takes the place of the ones registered before
add_external_address_Replacing(addrs, a) == {a}

\* Swarm::add_external_address
add_external_address(addrs, a) == addrs \cup {a}

\* a successful subscribe leaves the node on the new topic alone
subscribe_Only(subs, hash, result) == IF result = "Ok" THEN {hash} ELSE subs

\* gossipsub::Behaviour::subscribe: an already joined topic is left as it is
\* (Ok(false)); a new one is joined unless the call fails
SubscribeResults(subs, hash) == IF hash \in subs THEN {"Ok"} ELSE {"Ok", "Err"}
subscribe(subs, hash, result) == IF result = "Ok" THEN subs \cup {hash} ELSE subs

\* gossipsub::Behaviour::add_explicit_peer
add_explicit_peer(peers, p) == peers \cup {p}

----------------------------------------------------------------------------
(* The event loop: select(swarm.next(), &mut tick) and the arms of the match *)

TickAfterEvent_Fresh(t) == NewDelay

\* select borrows the timer (&mut tick): an iteration that takes the swarm's
\* event leaves the timer as it is, armed or fired
TickAfterEvent(t) == t

\* Either::Left((event, _)): swarm.next() was ready with event e
Left(e) ==
    /\ pc = "select"
    /\ pending > 0
    /\ pending' = pending - 1
    /\ event' = e
    /\ tick' = TickAfterEvent(tick)

external_address_Second(o, address) == Replace(address, 1, Ip(o.external_address.val))

\* what the NewListenAddr arm registers: the address with its first component
\* replaced by the configured external IP
external_address(o, address) == Replace(address, 0, Ip(o.external_address.val))

\* address.with(Protocol::P2p(*swarm.local_peer_id())), as logged
p2p_address(address) == With(address, P2p(local_peer_id))

\* SwarmEvent::NewListenAddr { address, .. }
HandleNewListenAddr ==
    \E e \in NewListenAddrEvents :
        /\ Left(e)
        /\ IF opt.external_address.some
           THEN LET replaced == external_address(opt, e.addr)
                IN  IF replaced.some
                    THEN /\ external_addresses' =
                                add_external_address(external_addresses, replaced.addr)
                         /\ calls' = <<Call("add_external_address", "", 0,
                                            replaced.addr, "Ok"),
                                       Call("info", "", 0, p2p_address(e.addr), "Ok")>>
                         /\ pc' = "select"
                    ELSE \* .expect("address.len > 1 and we always return `Some`")
                         /\ external_addresses' = external_addresses
                         /\ calls' = <<>>
                         /\ pc' = "aborted"
           ELSE /\ external_addresses' = external_addresses
                /\ calls' = <<Call("info", "", 0, p2p_address(e.addr), "Ok")>>
                /\ pc' = "select"
        /\ UNCHANGED <<keyFile, certFile, nextKey, opt, local_key, local_peer_id,
                       behaviour_peer_id, subscriptions, explicit_peers, ids>>

\* an arm that dials the first bootstrap address again after logging
LogOnly_Redial(e) ==
    /\ Left(e)
    /\ calls' = <<Call("dial", "", 0, opt.connect[1], "Ok")>>
    /\ UNCHANGED <<keyFile, certFile, nextKey, opt, pc, local_key, local_peer_id,
                   behaviour_peer_id, external_addresses, subscriptions,
                   explicit_peers, ids>>

\* an arm that takes the event's peer out of the explicit peers, as the
\* commented-out remove_peer lines would
LogOnly_Evicting(e) ==
    /\ Left(e)
    /\ calls' = <<>>
    /\ explicit_peers' = explicit_peers \ {e.peer}
    /\ UNCHANGED <<keyFile, certFile, nextKey, opt, pc, local_key, local_peer_id,
                   behaviour_peer_id, external_addresses, subscriptions, ids>>

\* an arm that only logs
LogOnly(e) ==
    /\ Left(e)
    /\ calls' = <<>>
    /\ UNCHANGED <<keyFile, certFile, nextKey, opt, pc, local_key, local_peer_id,
                   behaviour_peer_id, external_addresses, subscriptions,
                   explicit_peers, ids>>

\* SwarmEvent::ConnectionEstablished { peer_id, .. }
HandleConnectionEstablished ==
    LogOnly(Event("ConnectionEstablished", 0, "", NoAddr))

\* SwarmEvent::OutgoingConnectionError { peer_id, error, .. }
HandleOutgoingConnectionError ==
    LogOnly(Event("OutgoingConnectionError", 0, "", NoAddr))

\* SwarmEvent::IncomingConnectionError { error, .. }
HandleIncomingConnectionError ==
    LogOnly(Event("IncomingConnectionError", 0, "", NoAddr))

\* SwarmEvent::ConnectionClosed { peer_id, cause, .. }
HandleConnectionClosed ==
    \E p \in Peers : LogOnly(Event("ConnectionClosed", p, "", NoAddr))

\* SwarmEvent::Behaviour(BehaviourEvent::Relay(e))
HandleRelay == LogOnly(Event("Relay", 0, "", NoAddr))

\* SwarmEvent::Behaviour(BehaviourEvent::Dcutr(e))
HandleDcutr == LogOnly(Event("Dcutr", 0, "", NoAddr))

AfterSubscribe_Try(result) == OrAbort(result = "Ok", "select")

\* where the loop goes after the subscribe call: an Err is logged
AfterSubscribe(result) == "select"

newTopic_Discovery(e) == IdentTopicHash(GOSSIPSUB_PEER_DISCOVERY)

\* the topic the Message arm subscribes to:
\* gossipsub::IdentTopic::new(message.topic.to_string())
newTopic(e) == IdentTopicHash(e.topic)

\* SwarmEvent::Behaviour(BehaviourEvent::Gossipsub(Event::Message { message, .. }))
HandleGossipsubMessage ==
    \E e \in MessageEvents :
        \E result \in SubscribeResults(subscriptions, newTopic(e)) :
            /\ Left(e)
            /\ subscriptions' = subscribe(subscriptions, newTopic(e), result)
            /\ calls' = <<Call("subscribe", newTopic(e), 0, NoAddr, result)>>
            /\ pc' = AfterSubscribe(result)
            /\ UNCHANGED <<keyFile, certFile, nextKey, opt, local_key,
                           local_peer_id, behaviour_peer_id, external_addresses,
                           explicit_peers, ids>>

SubscribedCalls_Deduplicated(peer_id) ==
    IF peer_id \in explicit_peers
    THEN <<>>
    ELSE <<Call("add_explicit_peer", "", peer_id, NoAddr, "Ok")>>

\* the calls the Subscribed arm issues for peer_id
SubscribedCalls(peer_id) == <<Call("add_explicit_peer", "", peer_id, NoAddr, "Ok")>>

\* SwarmEvent::Behaviour(BehaviourEvent::Gossipsub(Event::Subscribed { peer_id, topic }))
HandleGossipsubSubscribed ==
    \E e \in SubscribedEvents :
        /\ Left(e)
        /\ explicit_peers' = add_explicit_peer(explicit_peers, e.peer)
        /\ calls' = SubscribedCalls(e.peer)
        /\ UNCHANGED <<keyFile, certFile, nextKey, opt, pc, local_key,
                       local_peer_id, behaviour_peer_id, external_addresses,
                       subscriptions, ids>>

IdentifyAddresses_Dropped(addrs, e) == addrs

\* every identify event registers the address field it carries, empty or not
IdentifyAddresses_Always(addrs, e) == addrs \cup {e.addr}

\* the Identify arm: only identify::Event::Received registers observed_addr
IdentifyAddresses(addrs, e) ==
    IF e.kind = "Identify::Received" THEN add_external_address(addrs, e.addr) ELSE addrs

\* SwarmEvent::Behaviour(BehaviourEvent::Identify(e))
HandleIdentify ==
    \E e \in IdentifyEvents :
        /\ Left(e)
        /\ external_addresses' = IdentifyAddresses(external_addresses, e)
        /\ calls' = IF e.kind = "Identify::Received"
                    THEN <<Call("add_external_address", "", 0, e.addr, "Ok")>>
                    ELSE <<>>
        /\ UNCHANGED <<keyFile, certFile, nextKey, opt, pc, local_key,
                       local_peer_id, behaviour_peer_id, subscriptions,
                       explicit_peers, ids>>

\* _ => {}
HandleOther == \E e \in OtherEvents : LogOnly(e)

\* select polls swarm.next() first: with no event ready it polls the timer.
\* A new iteration has begun: the previous one's event and calls are history
PollSwarmPending ==
    /\ pc = "select"
    /\ pending = 0
    /\ pc' = "poll_tick"
    /\ event' = NoEvent
    /\ calls' = <<>>
    /\ UNCHANGED <<keyFile, certFile, nextKey, opt, local_key, local_peer_id,
                   behaviour_peer_id, external_addresses, subscriptions,
                   explicit_peers, pending, tick, ids>>

\* the timer arm without its assignment to tick: the expired Delay is kept
Rearm_Skipped(t) == t

\* tick = futures_timer::Delay::new(TICK_INTERVAL)
Rearm(t) == NewDelay

\* the swarm future dropped by select takes the event it was about to yield
PendingAfterTick_Dropped(n) == IF n > 0 THEN n - 1 ELSE 0

\* select(swarm.next(), &mut tick) resolved to Either::Right: the Next future
\* it drops borrows the swarm and holds no event, so what the swarm has ready
\* stays in the swarm
PendingAfterTick(n) == n

\* Either::Right(_): tick = futures_timer::Delay::new(TICK_INTERVAL); debug!(..)
HandleTick ==
    /\ pc = "poll_tick"
    /\ tick.fired
    /\ tick' = Rearm(tick)
    /\ pending' = PendingAfterTick(pending)
    /\ event' = Event("Tick", 0, "", NoAddr)
    /\ calls' = <<Call("Delay::new", "", 0, NoAddr, "Ok"),
                  Call("external_addresses", "", 0, NoAddr, "Ok")>>
    /\ pc' = "select"
    /\ UNCHANGED <<keyFile, certFile, nextKey, opt, local_key, local_peer_id,
                   behaviour_peer_id, external_addresses, subscriptions,
                   explicit_peers, ids>>

\* neither future is ready: the select future returns Pending and the task
\* sleeps until one of them wakes it
Park ==
    /\ pc = "poll_tick"
    /\ ~tick.fired
    /\ pc' = "parked"
    /\ UNCHANGED <<keyFile, certFile, nextKey, opt, local_key, local_peer_id,
                   behaviour_peer_id, external_addresses, subscriptions,
                   explicit_peers, pending, tick, event, calls, ids>>

\* a wake-up polls the select future again, swarm.next() first
Wake ==
    /\ pc = "parked"
    /\ pending > 0 \/ tick.fired
    /\ pc' = "select"
    /\ UNCHANGED <<keyFile, certFile, nextKey, opt, local_key, local_peer_id,
                   behaviour_peer_id, external_addresses, subscriptions,
                   explicit_peers, pending, tick, event, calls, ids>>

Handle ==
    \/ HandleNewListenAddr
    \/ HandleConnectionEstablished
    \/ HandleOutgoingConnectionError
    \/ HandleIncomingConnectionError
    \/ HandleConnectionClosed
    \/ HandleRelay
    \/ HandleDcutr
    \/ HandleGossipsubMessage
    \/ HandleGossipsubSubscribed
    \/ HandleIdentify
    \/ HandleOther

Loop == Handle \/ PollSwarmPending \/ HandleTick \/ Park \/ Wake

----------------------------------------------------------------------------
(* The environment of the loop *)

\* the network makes one more event ready in the swarm
SwarmReady ==
    /\ pc \in LoopPcs
    /\ pending < MaxPending
    /\ pending' = pending + 1
    /\ UNCHANGED <<keyFile, certFile, nextKey, opt, pc, local_key, local_peer_id,
                   behaviour_peer_id, external_addresses, subscriptions,
                   explicit_peers, tick, event, calls, ids>>

\* TICK_INTERVAL has passed since the timer was armed
TimerExpire ==
    /\ pc \in LoopPcs
    /\ ~tick.fired
    /\ tick' = [tick EXCEPT !.fired = TRUE]
    /\ UNCHANGED <<keyFile, certFile, nextKey, opt, pc, local_key, local_peer_id,
                   behaviour_peer_id, external_addresses, subscriptions,
                   explicit_peers, pending, event, calls, ids>>

Main == Startup \/ Loop

\* one run of the process: main, the network and the clock
Next == Main \/ SwarmReady \/ TimerExpire

Spec == Init /\ [][Next]_vars

\* a run on intact files with no override (what the disk held and the override
\* decide nothing about the timer), in which main runs as long as it can and
\* time passes
FairInit ==
    /\ Init
    /\ keyFile = File(to_protobuf_encoding(PreexistingKey))
    /\ certFile = File(serialize_pem(GeneratedCert))
    /\ opt.external_address = None

FairSpec == FairInit /\ [][Next]_vars /\ WF_vars(Main) /\ WF_vars(TimerExpire)

\* the process over its restarts on one disk: the startup sequence of every
\* run and, of the loop, the arm that uses the node's identifier
LifeNext == Startup \/ SwarmReady \/ HandleNewListenAddr \/ Restart

LifeSpec == Init /\ [][LifeNext]_vars

----------------------------------------------------------------------------
(* The claims *)

LoopEntered == pc \in LoopPcs

\* the step of an arm of the match: the loop took the swarm's event
Handled == pending' < pending

KeyFileDecoded == from_protobuf_encoding(keyFile.bytes)

CallsOf(op) == SelectSeq(calls, LAMBDA c : c.op = op)

\* C1: the peer identifier the running swarm uses, and appends to the dialable
\* addresses it logs, is the one derived from the keypair in the identity key
\* file, hence the same in every run on an intact file
C1_SwarmIdFromKeyFile ==
    LoopEntered =>
        /\ keyFile.exists
        /\ KeyFileDecoded.ok
        /\ local_peer_id = PeerIdOf(KeyFileDecoded.key.public)
        /\ \A i \in 1..Len(CallsOf("info")) :
             LET logged == CallsOf("info")[i].addr
             IN  logged[Len(logged)] = P2p(PeerIdOf(KeyFileDecoded.key.public))

\* C2: a call that finds no identity file generates a keypair, leaves its
\* encoding in the file and returns it, and the call of the following run
\* loads a keypair with the same identifier
C2_GenerateReloadRoundTrip ==
    \A i \in 1..Len(ids) :
        ids[i].how = "generated" =>
            /\ keyFile.exists
            /\ KeyFileDecoded.ok
            /\ PeerIdOf(KeyFileDecoded.key.public) = ids[i].id
            /\ i < Len(ids) => ids[i + 1] = [how |-> "loaded", id |-> ids[i].id]

\* a run generated the identity and the following run loaded it
C2_Witness ==
    /\ Len(ids) = 2
    /\ ids[1].how = "generated"
    /\ ids[2].how = "loaded"

\* C3: a call that finds an identity file leaves the file as it is, and
\* successive loads of the file return the same identifier
C3_LoadLeavesFile ==
    [][/\ (pc = "read_identity" /\ keyFile.exists) => keyFile' = keyFile
       /\ \A i \in 1..(Len(ids') - 1) :
            ids'[i].how = "loaded" => ids'[i + 1] = ids'[i]]_vars

\* two runs in a row loaded the identity file that was there from the start
C3_Witness ==
    /\ Len(ids) = 2
    /\ ids[1].how = "loaded"
    /\ ids[2].how = "loaded"
    /\ keyFile = File(to_protobuf_encoding(PreexistingKey))

ListenOk(cs, addr) ==
    \E i \in 1..Len(cs) : cs[i] = Call("listen_on", "", 0, addr, "Ok")

\* C4: the loop is entered only after listen_on succeeded on the tcp address
\* (port 1234), the webrtc address (port 9090) and the quic address (port
\* 9091); a failed listen_on aborts startup, for good
C4_LoopOnlyIfAllListening ==
    [][/\ (~LoopEntered /\ LoopEntered') =>
            /\ ListenOk(calls', <<Ip(opt.listen_address), Tcp(1234)>>)
            /\ ListenOk(calls', <<Ip(opt.listen_address), Udp(9090), WebRTCDirect>>)
            /\ ListenOk(calls', <<Ip(opt.listen_address), Udp(9091), QuicV1>>)
       /\ (\E i \in 1..Len(calls') :
              calls'[i].op = "listen_on" /\ calls'[i].result = "Err")
            => pc' = "aborted"
       /\ pc = "aborted" => pc' = "aborted"]_vars

\* tcp and webrtc were bound, quic was not, and startup aborted
C4_Witness ==
    /\ pc = "aborted"
    /\ Len(calls) = 3
    /\ calls[1].result = "Ok"
    /\ calls[2].result = "Ok"
    /\ calls[3] = Call("listen_on", "", 0, address_quic(opt), "Err")

\* the timer arm has just run: it rearmed the timer for TICK_INTERVAL
TickTaken == event.kind = "Tick" /\ tick = NewDelay

\* C5 as stated: in the loop the timer branch is taken again and again forever,
\* whatever the load of swarm events
C5_TimerNeverStarved == LoopEntered ~> TickTaken

\* C5 amended: the timer branch is taken again and again forever provided the
\* select finds swarm.next() pending again and again; select polls the swarm
\* first, so a swarm that is ready at every poll starves an expired timer
C5_TimerTakenWhenSwarmPends == ([]<>(pc = "poll_tick")) => (LoopEntered ~> TickTaken)

\* the timer branch was taken and the timer rearmed while an event was ready
C5_Witness ==
    /\ TickTaken
    /\ pc = "select"
    /\ tick.interval = 15
    /\ pending > 0

\* C6: the arm of any event brings the loop back to the selection point,
\* also when the subscribe call fails and when an override is configured
C6_HandlersReturnToSelect ==
    [][Handled => pc' = "select"]_vars

\* a message's subscribe call failed and the loop is back at the selection
C6_Witness ==
    /\ pc = "select"
    /\ event.kind = "Gossipsub::Message"
    /\ Len(calls) = 1
    /\ calls[1].op = "subscribe"
    /\ calls[1].result = "Err"

\* C7: the arm of a pubsub message with topic T issues exactly one subscribe
\* call, for T, and T is subscribed afterwards when the call succeeded
C7_MessageSubscribes ==
    event.kind = "Gossipsub::Message" =>
        /\ Len(CallsOf("subscribe")) = 1
        /\ CallsOf("subscribe")[1].topic = event.topic
        /\ CallsOf("subscribe")[1].result = "Ok" => event.topic \in subscriptions

\* a message on a topic that is none of the well-known ones was handled, and
\* the topic is subscribed
C7_Witness ==
    /\ event.kind = "Gossipsub::Message"
    /\ event.topic \notin {GOSSIPSUB_PEER_DISCOVERY, DCONTACT_TOPIC}
    /\ calls = <<Call("subscribe", event.topic, 0, NoAddr, "Ok")>>
    /\ event.topic \in subscriptions

\* C8: the arm of a subscription notification for peer P issues exactly one
\* add_explicit_peer call, for P, whatever the topic; P is an explicit peer
\* afterwards, and a P that already was one leaves the set as it was
C8_SubscribedRegistersPeer ==
    [][(Handled /\ event'.kind = "Gossipsub::Subscribed") =>
          /\ calls' = <<Call("add_explicit_peer", "", event'.peer, NoAddr, "Ok")>>
          /\ event'.peer \in explicit_peers'
          /\ event'.peer \in explicit_peers => explicit_peers' = explicit_peers
          /\ pc' = "select"]_vars

\* a peer's subscription to a topic this node has not joined was handled
C8_Witness ==
    /\ event.kind = "Gossipsub::Subscribed"
    /\ event.topic \notin subscriptions
    /\ event.peer \in explicit_peers
    /\ Len(CallsOf("add_explicit_peer")) = 1
    /\ pc = "select"

\* C9: after the arm of an identification-received event with observed
\* address A, A is an external address; when it already was one the set is
\* as it was, and the loop goes on
C9_ObservedAddressRegistered ==
    [][(Handled /\ event'.kind = "Identify::Received") =>
          /\ event'.addr \in external_addresses'
          /\ external_addresses \subseteq external_addresses'
          /\ event'.addr \in external_addresses
                => external_addresses' = external_addresses
          /\ pc' = "select"]_vars

\* an observed address was registered
C9_Witness ==
    /\ event.kind = "Identify::Received"
    /\ event.addr \in external_addresses
    /\ calls = <<Call("add_external_address", "", 0, event.addr, "Ok")>>
    /\ pc = "select"

\* C10: with an override configured, the arm of a new-listen-address event
\* with address L registers an address whose first component is the override
\* and whose later components are those of L, in L's order
C10_OverrideKeepsSuffix ==
    (event.kind = "NewListenAddr" /\ opt.external_address.some) =>
        /\ Len(CallsOf("add_external_address")) = 1
        /\ LET registered == CallsOf("add_external_address")[1].addr
           IN  /\ registered \in external_addresses
               /\ Len(registered) = Len(event.addr)
               /\ registered[1] = Ip(opt.external_address.val)
               /\ \A i \in 2..Len(event.addr) : registered[i] = event.addr[i]

\* the webrtc listener's address, four components long, was registered with
\* the override in front
C10_Witness ==
    /\ event.kind = "NewListenAddr"
    /\ opt.external_address.some
    /\ Len(event.addr) = 4
    /\ Len(CallsOf("add_external_address")) = 1
    /\ CallsOf("add_external_address")[1].addr[4] = event.addr[4]

\* C11: in the loop the set of external addresses only grows: no event's arm
\* and no timer tick takes an address out of it
C11_ExternalAddressesGrow ==
    [][LoopEntered => external_addresses \subseteq external_addresses']_vars

\* two addresses were registered and both are there after a timer tick
C11_Witness ==
    /\ event.kind = "Tick"
    /\ pc = "select"
    /\ Cardinality(external_addresses) >= 2

\* the address the new-listen-address arm registers for L under the override
OverrideOf(l) == <<Ip(opt.external_address.val)>> \o Tail(l)

\* C12: the set of external addresses starts empty, and an address enters it
\* only in the arm of a new-listen-address event, with an override configured,
\* as the listen address with its first component rewritten to the override,
\* or in the arm of an identification-received event, as the observed address
\* the event carries; hence the set is empty as long as there is no override
\* and no identification-received event was handled
C12_ExternalAddressOrigins ==
    /\ external_addresses = {}
    /\ [][\A a \in external_addresses' \ external_addresses :
            /\ Handled
            /\ \/ /\ event'.kind = "NewListenAddr"
                  /\ opt.external_address.some
                  /\ event'.addr \in ListenAddrs
                  /\ a = OverrideOf(event'.addr)
               \/ /\ event'.kind = "Identify::Received"
                  /\ event'.addr \in ObservedAddrs
                  /\ a = event'.addr]_vars

\* the set holds an address of each origin
C12_Witness ==
    /\ opt.external_address.some
    /\ \E l \in ListenAddrs : OverrideOf(l) \in external_addresses
    /\ \E o \in ObservedAddrs : o \in external_addresses
    /\ pc = "select"

\* C13 as stated: in the loop the node is subscribed to the configured
\* discovery topic and to the configured application-message topic
C13_BothTopicsAtEntry ==
    LoopEntered =>
        {IdentTopicHash(opt.gossipsub_peer_discovery),
         IdentTopicHash(opt.dcontact_topic)} \subseteq subscriptions

\* C14: a failed bootstrap dial does not end startup: from the dial loop main
\* goes on dialing or enters the event loop, it can always do one of the two,
\* and when it enters the loop it has dialed every bootstrap address, in the
\* order of the command line, whatever the dials returned
C14_DialFailureNotFatal ==
    [][pc = "dial" =>
          /\ pc' \in {"dial", "select"}
          /\ ENABLED (Dial \/ EnterLoop)
          /\ pc' = "select" =>
                /\ Len(CallsOf("dial")) = Len(opt.connect)
                /\ \A i \in 1..Len(opt.connect) :
                     CallsOf("dial")[i].addr = opt.connect[i]]_vars

\* every dial failed and the loop was entered
C14_Witness ==
    /\ pc = "select"
    /\ Len(CallsOf("dial")) = Len(opt.connect)
    /\ Len(opt.connect) >= 2
    /\ \A i \in 1..Len(opt.connect) : CallsOf("dial")[i].result = "Err"

\* the loop holds no queue of its own: the events wait in the swarm, a stream
\* that yields them in the order it produced them, and the loop is faithful to
\* that order when it takes them one at a time, dispatches each in the
\* iteration that takes it, and takes none anywhere else. A step that takes
\* from the swarm is an arm of the match at the selection point, takes exactly
\* one event and leaves the timer as it was; an expired timer changes only in
\* the timer arm, which takes nothing from the swarm
C15_TakenOneAtATime ==
    [][/\ pending' < pending =>
             /\ pc = "select"
             /\ pending' = pending - 1
             /\ event'.kind \notin {"none", "Tick"}
             /\ tick' = tick
       /\ (LoopEntered /\ tick.fired /\ tick' # tick) =>
             /\ pc = "poll_tick"
             /\ event'.kind = "Tick"
             /\ pending' = pending]_vars

\* an event that waits in the swarm is dispatched at a later iteration, also
\* when the timer arm ran first
C15_PendingEventDispatched ==
    (LoopEntered /\ pending > 0) ~> (event.kind \notin {"none", "Tick"})

ObservabilityKinds ==
    {"ConnectionEstablished", "OutgoingConnectionError",
     "IncomingConnectionError", "ConnectionClosed", "Dcutr", "Relay",
     "Identify::Error(Timeout)", "Identify::Error(Other)"}

\* C16: the arm of an observability-only event (connection established,
\* outbound or inbound attempt failed, connection closed, hole-punch event,
\* relay event, identification error or timeout) leaves the external
\* addresses, the subscriptions and the explicit peers as they were and
\* issues no call to the library, hence no dial and no retry
C16_ObservabilityOnly ==
    [][(Handled /\ event'.kind \in ObservabilityKinds) =>
          /\ external_addresses' = external_addresses
          /\ subscriptions' = subscriptions
          /\ explicit_peers' = explicit_peers
          /\ calls' = <<>>
          /\ pc' = "select"]_vars

\* identification of an explicit peer timed out, nothing was called, and the
\* peer and the addresses registered before are still there
C16_Witness ==
    /\ event.kind = "Identify::Error(Timeout)"
    /\ event.peer \in explicit_peers
    /\ external_addresses # {}
    /\ calls = <<>>
    /\ pc = "select"

\* C17: the timer arm replaces the timer by one armed for the same 15 seconds
\* and leaves the external addresses, the subscriptions and the explicit peers
\* as they were; hence whenever the loop is at the selection point there is a
\* timer of 15 seconds which the loop has not consumed, counting or expired
C17_TickRearms ==
    [][/\ (pc = "poll_tick" /\ event'.kind = "Tick") =>
             /\ tick' = [interval |-> 15, fired |-> FALSE]
             /\ external_addresses' = external_addresses
             /\ subscriptions' = subscriptions
             /\ explicit_peers' = explicit_peers
             /\ pc' = "select"
       /\ pc' = "select" => tick'.interval = 15]_vars

\* the timer arm ran with the three sets filled and left the loop at the
\* selection point with a fresh timer
C17_Witness ==
    /\ event.kind = "Tick"
    /\ tick = [interval |-> 15, fired |-> FALSE]
    /\ pc = "select"
    /\ explicit_peers # {}
    /\ external_addresses # {}
    /\ Cardinality(subscriptions) >= 2

\* C18: on a key file that exists and does not decode,
\* read_or_create_identity returns an error: no keypair is generated, the
\* file is not written, and startup aborts at once, before any listen request
\* and before the event loop
C18_CorruptKeyFileAborts ==
    [][(pc = "read_identity" /\ keyFile.exists /\ ~KeyFileDecoded.ok) =>
          /\ keyFile' = keyFile
          /\ nextKey' = nextKey
          /\ local_key' = NoKey
          /\ ids'[Len(ids')].how = "error"
          /\ pc' = "aborted"
          /\ calls' = <<>>]_vars

\* the first run generated a keypair and its write left a truncated file; the
\* second run found that file, generated nothing and aborted
C18_Witness ==
    /\ pc = "aborted"
    /\ Len(ids) = 2
    /\ ids[2].how = "error"
    /\ nextKey = 2
    /\ keyFile.exists
    /\ keyFile.bytes # <<>>
    /\ ~KeyFileDecoded.ok
    /\ calls = <<>>

\* C19: the set of explicit peers only grows: a peer registered on its
\* subscription stays in it whatever is handled later, be it the closing of a
\* connection to it, its unsubscribing, an identification timeout for it or a
\* timer tick
C19_ExplicitPeersGrow ==
    [][LoopEntered => explicit_peers \subseteq explicit_peers']_vars

\* an explicit peer unsubscribed and is still an explicit peer
C19_Witness ==
    /\ event.kind = "Gossipsub::Unsubscribed"
    /\ event.peer \in explicit_peers
    /\ pc = "select"

\* the step is the arm of a message tagged as the message handled just
\* before it was
SecondMessage ==
    /\ pc = "select"
    /\ event.kind = "Gossipsub::Message"
    /\ Handled
    /\ event'.kind = "Gossipsub::Message"
    /\ event'.topic = event.topic

\* every message's arm issues one subscribe call, for the message's topic,
\* and no step in the loop takes a topic out of the subscriptions
C20_OneCallAndNoLoss ==
    /\ (Handled /\ event'.kind = "Gossipsub::Message") =>
          calls' = <<Call("subscribe", IdentTopicHash(event'.topic), 0, NoAddr,
                          calls'[1].result)>>
    /\ LoopEntered => subscriptions \subseteq subscriptions'

\* C20 as stated: one subscribe call per message, no topic is ever lost, and
\* a second message tagged T leaves the subscriptions as the first message
\* tagged T left them
C20_SecondMessageNoOp ==
    [][/\ C20_OneCallAndNoLoss
       /\ SecondMessage => subscriptions' = subscriptions]_vars

\* C20 amended: one subscribe call per message, no topic is ever lost, and a
\* message tagged T leaves the subscriptions as they were once T is joined,
\* hence as the first message tagged T whose subscribe call succeeded left
\* them; after a call that failed T is not joined and a later message joins it
C20_JoinedMessageNoOp ==
    [][/\ C20_OneCallAndNoLoss
       /\ (Handled /\ event'.kind = "Gossipsub::Message"
              /\ IdentTopicHash(event'.topic) \in subscriptions)
             => subscriptions' = subscriptions
       /\ (SecondMessage /\ calls[1].result = "Ok")
             => subscriptions' = subscriptions]_vars

\* a message tagged with the topic joined at startup was handled: one more
\* subscribe call, and the topic learned before is still joined next to it
C20_Witness ==
    /\ event.kind = "Gossipsub::Message"
    /\ event.topic = opt.gossipsub_peer_discovery
    /\ calls = <<Call("subscribe", IdentTopicHash(event.topic), 0, NoAddr, "Ok")>>
    /\ IdentTopicHash(event.topic) \in subscriptions
    /\ Cardinality(subscriptions) >= 2
    /\ pc = "select"

====
